---- MODULE Spec2Model ----
(***************************************************************************)
(* Kibo Tasks: the task-line parser, the column-assignment policy, the     *)
(* TaskStore and the TaskWriter (line mutation engine) as a state machine. *)
(*                                                                         *)
(* Text is modelled character by character: a string is a sequence of      *)
(* one-character strings, a document is the sequence of its lines          *)
(* (content.split('\n')).  Two kinds of symbol stand for longer text: an   *)
(* emoji is one symbol (as it is one code point for the 'u' regexes), and  *)
(* a well-formed date YYYY-MM-DD is one symbol ("D", or "N" for today).    *)
(***************************************************************************)
EXTENDS Integers, Sequences, FiniteSets, TLC

VARIABLES
    vault,              \* path -> document (sequence of lines) or NoFile
    settings,           \* KiboTasksSettings (columns, excludedFolders, ...)
    tasks,              \* TaskStore.tasks
    columnAssignments,  \* TaskStore.columnAssignments: task id -> column id
    last,               \* history: the last operation and what it saw
    ops,                \* history: number of operations performed
    inflight,           \* writer transitions handed to vault.process
    debounceTimer,      \* TaskStore.debounceTimer: the path it will reparse
    listening,          \* TaskStore.eventRefs is not empty
    log,                \* history: what was issued, applied and reparsed
    board               \* the lists getTasksByColumn gave the last render

\* the state of the write path and of the event path
aux == <<inflight, debounceTimer, listening, log, board>>

vars == <<vault, settings, tasks, columnAssignments, last, ops, aux>>

----------------------------------------------------------------------------
(* Bounds of the model *)

MaxPieces == 1  \* pieces of text after "- [c] #t" in an initial task line
MaxOps == 1     \* writer operations per behaviour
MaxCols == 2    \* columns in an enumerated column list
MaxTrip == 2    \* writer operations per behaviour of SpecTrip
MaxLines == 2   \* lines of the first document of SpecDoc
MaxDocOps == 1  \* writer transitions per behaviour of SpecDoc
MaxRace == 2    \* writer transitions in flight at once in SpecRace
MaxEvents == 4  \* vault events, timer expiries and scans of SpecTimer
MaxDone == 6    \* completed task lines of a document of SpecView
MaxParse == 4   \* lines of a document of SpecParse
MaxDrags == 2   \* drops of a card in SpecRedrag
MaxStore == 3   \* vault events and settings edits of SpecStore

----------------------------------------------------------------------------
(* Characters *)

NULL == "null"         \* null where the value is a string
NoTag == <<>>          \* a column's tag: null
NoFile == "nofile"     \* no file at a path
NoTimer == <<>>        \* debounceTimer: null

\* constants.ts EMOJI and PRIORITY_EMOJI_MAP, one symbol per emoji
EMOJI == [DUE |-> "U", DONE |-> "V", CREATED |-> "C", SCHEDULED |-> "S",
          START |-> "B", CANCELLED |-> "X", RECURRENCE |-> "R"]
PriorityEmoji == <<"1", "2", "3", "4">>

\* \d{4}-\d{2}-\d{2}: the symbols that are a well-formed date
Dates == {"D", "N", "F"}
IsDate(c) == c \in Dates

\* the order of the dates: "D" is a day before today, "F" a day after
DateRank(d) == CASE d = "D" -> 1 [] d = "N" -> 2 [] d = "F" -> 3

\* todayStr(): the date of the day the operation runs
todayStr == "N"

\* \s
IsSpace(c) == c = " "

\* [\w-]: a date is made of digits and hyphens, so it continues a tag
IsTagChar(c) == c \in {"a", "w", "t", "x", "-", "D", "N", "F"}

StatusChars == {" ", "x", "/", "-", "!"}

----------------------------------------------------------------------------
(* String primitives (JavaScript String / RegExp semantics) *)

\* the literal pat occurs in s at position i (1-based)
MatchAt(s, i, pat) ==
    /\ i >= 1
    /\ i + Len(pat) - 1 <= Len(s)
    /\ \A k \in 1..Len(pat) : s[i + k - 1] = pat[k]

\* String.prototype.includes
Includes(s, pat) == \E i \in 1..(Len(s) + 1) : MatchAt(s, i, pat)

\* String.prototype.indexOf, 1-based; 0 when absent
IndexOf(s, pat) ==
    IF Includes(s, pat)
    THEN CHOOSE i \in 1..(Len(s) + 1) :
            /\ MatchAt(s, i, pat)
            /\ \A j \in 1..(i - 1) : ~MatchAt(s, j, pat)
    ELSE 0

\* position after the whitespace run that starts at i (greedy \s*)
RECURSIVE SkipWs(_, _)
SkipWs(s, i) ==
    IF i <= Len(s) /\ IsSpace(s[i]) THEN SkipWs(s, i + 1) ELSE i

\* String.prototype.trimEnd
RECURSIVE TrimEnd(_)
TrimEnd(s) ==
    IF Len(s) > 0 /\ IsSpace(s[Len(s)])
    THEN TrimEnd(SubSeq(s, 1, Len(s) - 1))
    ELSE s

\* s.replace(pat, rep) with a string pattern: the first occurrence only
ReplaceFirst(s, pat, rep) ==
    LET i == IndexOf(s, pat) IN
    IF i = 0 THEN s
    ELSE SubSeq(s, 1, i - 1) \o rep \o SubSeq(s, i + Len(pat), Len(s))

\* s.replace(new RegExp(`\\s*${escapeRegex(tag)}`, 'g'), ''): every
\* leftmost match of a whitespace run followed by the literal tag
RECURSIVE StripTagFrom(_, _, _)
StripTagFrom(s, i, tag) ==
    IF i > Len(s) THEN <<>>
    ELSE LET j == SkipWs(s, i) IN
         IF MatchAt(s, j, tag)
         THEN StripTagFrom(s, j + Len(tag), tag)
         ELSE <<s[i]>> \o StripTagFrom(s, i + 1, tag)

StripTag(s, tag) == StripTagFrom(s, 1, tag)

\* s.replace(/\s+/g, ' ')
RECURSIVE CollapseFrom(_, _)
CollapseFrom(s, i) ==
    IF i > Len(s) THEN <<>>
    ELSE IF IsSpace(s[i])
         THEN <<" ">> \o CollapseFrom(s, SkipWs(s, i))
         ELSE <<s[i]>> \o CollapseFrom(s, i + 1)

CollapseWs(s) == CollapseFrom(s, 1)

\* s.replace(/\s{2,}/g, ' ')
RECURSIVE Collapse2From(_, _)
Collapse2From(s, i) ==
    IF i > Len(s) THEN <<>>
    ELSE IF IsSpace(s[i]) /\ SkipWs(s, i) - i >= 2
         THEN <<" ">> \o Collapse2From(s, SkipWs(s, i))
         ELSE <<s[i]>> \o Collapse2From(s, i + 1)

CollapseWs2(s) == Collapse2From(s, 1)

\* s.replace(/ $/, '')
StripEndSpace(s) ==
    IF Len(s) > 0 /\ s[Len(s)] = " " THEN SubSeq(s, 1, Len(s) - 1) ELSE s

\* the regex `\s*✅\s+\d{4}-\d{2}-\d{2}` matches at i: the position after
\* the match, or 0
DoneDateEnd(s, i) ==
    LET j == SkipWs(s, i)
        k == SkipWs(s, j + 1)
    IN  IF /\ j <= Len(s) /\ s[j] = EMOJI.DONE
           /\ k > j + 1
           /\ k <= Len(s) /\ IsDate(s[k])
        THEN k + 1
        ELSE 0

\* s.replace(new RegExp(`\\s*${EMOJI.DONE}\\s+\\d{4}-\\d{2}-\\d{2}`, 'gu'), '')
RECURSIVE StripDoneFrom(_, _)
StripDoneFrom(s, i) ==
    IF i > Len(s) THEN <<>>
    ELSE IF DoneDateEnd(s, i) # 0
         THEN StripDoneFrom(s, DoneDateEnd(s, i))
         ELSE <<s[i]>> \o StripDoneFrom(s, i + 1)

StripDoneDate(s) == StripDoneFrom(s, 1)

\* s.replace(/- \[[ \/!]\]/, '- [x]'): the first "- [c]" with c one of
\* space, '/', '!'
OpenBoxAt(s, i) ==
    \E c \in {" ", "/", "!"} : MatchAt(s, i, <<"-", " ", "[", c, "]">>)

CheckBox(s) ==
    IF \E i \in 1..Len(s) : OpenBoxAt(s, i)
    THEN LET i == CHOOSE i \in 1..Len(s) :
                    /\ OpenBoxAt(s, i)
                    /\ \A j \in 1..(i - 1) : ~OpenBoxAt(s, j)
         IN SubSeq(s, 1, i - 1) \o <<"-", " ", "[", "x", "]">>
                \o SubSeq(s, i + 5, Len(s))
    ELSE s

----------------------------------------------------------------------------
(* TaskWriter: the line transformations *)

EmojiChars ==
    <<EMOJI.DUE, EMOJI.DONE, EMOJI.CREATED, EMOJI.SCHEDULED, EMOJI.START,
      EMOJI.CANCELLED, EMOJI.RECURRENCE>> \o PriorityEmoji

\* TaskWriter.insertTag: before the first emoji of the line, or at its end
insertTag(line, tag) ==
    LET found == {i \in 1..Len(line) :
                    \E e \in 1..Len(EmojiChars) : line[i] = EmojiChars[e]}
        insertPos == IF found = {} THEN Len(line) + 1
                     ELSE CHOOSE i \in found : \A j \in found : i <= j
    IN  IF insertPos <= Len(line)
        THEN TrimEnd(SubSeq(line, 1, insertPos - 1)) \o <<" ">> \o tag
                \o <<" ">> \o SubSeq(line, insertPos, Len(line))
        ELSE TrimEnd(line) \o <<" ">> \o tag

\* the transform of TaskWriter.addTag
addTagLine(line, tag) ==
    IF Includes(line, tag) THEN line ELSE insertTag(line, tag)

\* the transform of TaskWriter.removeTag
removeTagLine(line, tag) ==
    StripEndSpace(CollapseWs(StripTag(line, tag)))

\* for (const tag of tags) result = result.replace(/\s*tag/g, '')
RECURSIVE StripTags(_, _)
StripTags(s, tags) ==
    IF tags = <<>> THEN s
    ELSE StripTags(StripTag(s, Head(tags)), Tail(tags))

\* if (!result.includes(EMOJI.DONE)) result = result.trimEnd() + ` ✅ ${doneDate}`
appendDoneDate(result, doneDate) ==
    IF ~Includes(result, <<EMOJI.DONE>>)
    THEN TrimEnd(result) \o <<" ", EMOJI.DONE, " ", doneDate>>
    ELSE result

\* the transform of TaskWriter.completeTask; its last replace, of
\* /^(\s*- \[x\]) / by '$1 ', puts back what it matched
completeLine(line, columnTags, doneDate) ==
    CollapseWs(appendDoneDate(StripTags(CheckBox(line), columnTags), doneDate))

BoxDone == <<"-", " ", "[", "x", "]">>
BoxOpen == <<"-", " ", "[", " ", "]">>

\* result.replace('- [x]', '- [ ]') then the done date removed
uncompleteText(line) ==
    StripDoneDate(ReplaceFirst(line, BoxDone, BoxOpen))

\* uncompleteTask leaving the done date on the line
uncompleteLine_KeepDate(line) ==
    StripEndSpace(CollapseWs(ReplaceFirst(line, BoxDone, BoxOpen)))

\* the transform of TaskWriter.uncompleteTask
uncompleteLine(line) ==
    StripEndSpace(CollapseWs(uncompleteText(line)))

\* the transform of TaskWriter.moveToColumn for a target that is not done
moveLine(line, status, targetColumnTag, targetColumnType, allColumnTags) ==
    LET r1 == IF status = "x" THEN uncompleteText(line) ELSE line
        r2 == StripTags(r1, allColumnTags)
        r3 == IF targetColumnType = "tag" /\ targetColumnTag # NoTag
              THEN insertTag(r2, targetColumnTag)
              ELSE r2
    IN  StripEndSpace(CollapseWs2(r3))

----------------------------------------------------------------------------
(* Task parser *)

\* TASK_LINE_REGEX = /^(\s*)- \[([ x\/\-!])\]\s+(.+)$/ on one line:
\* ok, the indent length, the status character and the raw text.  When
\* only whitespace follows the box, \s+ gives its last character to (.+).
TaskLineMatch(line) ==
    LET n == SkipWs(line, 1)
        p == n + 5
        q == SkipWs(line, p)
        ok == /\ MatchAt(line, n, <<"-", " ", "[">>)
              /\ Len(line) >= p + 1
              /\ line[n + 3] \in StatusChars
              /\ line[n + 4] = "]"
              /\ IsSpace(line[p])
    IN  [ok |-> ok,
         indent |-> n - 1,
         status |-> IF ok THEN line[n + 3] ELSE NULL,
         rawText |-> IF ~ok THEN <<>>
                     ELSE IF q <= Len(line) THEN SubSeq(line, q, Len(line))
                     ELSE <<line[Len(line)]>>]

\* end of the run of [\w-] characters starting at i
RECURSIVE TagEnd(_, _)
TagEnd(s, i) ==
    IF i <= Len(s) /\ IsTagChar(s[i]) THEN TagEnd(s, i + 1) ELSE i

\* the matches of /#[\w-]+/g, in text order
RECURSIVE TagsFrom(_, _)
TagsFrom(s, i) ==
    IF i > Len(s) THEN <<>>
    ELSE IF s[i] = "#" /\ TagEnd(s, i + 1) > i + 1
         THEN <<SubSeq(s, i, TagEnd(s, i + 1) - 1)>>
                \o TagsFrom(s, TagEnd(s, i + 1))
         ELSE TagsFrom(s, i + 1)

\* line.match(new RegExp(`${emoji}\\s+(\\d{4}-\\d{2}-\\d{2})`)): the date
\* of the first match, or NULL
MetaDate(s, emoji) ==
    LET hits == {i \in 1..Len(s) :
                    /\ s[i] = emoji
                    /\ SkipWs(s, i + 1) > i + 1
                    /\ SkipWs(s, i + 1) <= Len(s)
                    /\ IsDate(s[SkipWs(s, i + 1)])}
    IN  IF hits = {} THEN NULL
        ELSE s[SkipWs(s, (CHOOSE i \in hits : \A j \in hits : i <= j) + 1)]

\* PRIORITY_EMOJI_MAP, in the order of its entries
PriorityNames == <<"highest", "high", "medium", "low">>

\* parseEmojiMetadata: the priority of the first entry of the map whose
\* emoji the text includes
PriorityOf(s) ==
    LET hits == {k \in 1..Len(PriorityEmoji) : Includes(s, <<PriorityEmoji[k]>>)}
    IN  IF hits = {} THEN "none"
        ELSE PriorityNames[CHOOSE k \in hits : \A j \in hits : k <= j]

\* columns.filter((c) => c.tag !== null).map((c) => c.tag)
ColumnTagsOf(cols) ==
    LET RECURSIVE go(_)
        go(i) == IF i > Len(cols) THEN <<>>
                 ELSE IF cols[i].tag # NoTag THEN <<cols[i].tag>> \o go(i + 1)
                 ELSE go(i + 1)
    IN go(1)

InSeq(x, s) == \E i \in 1..Len(s) : s[i] = x

\* a parser that lists the column tags of a line in the order of the columns
ParseLine_ColumnOrder(line, filePath, i, globalFilter, cols) ==
    LET m == TaskLineMatch(line)
        all == TagsFrom(m.rawText, 1)
        colTags == ColumnTagsOf(cols)
        isFree(t) == t # globalFilter /\ ~InSeq(t, colTags)
        onLine(t) == t # globalFilter /\ InSeq(t, all)
    IN  [id |-> <<filePath, i>>,
         filePath |-> filePath,
         lineNumber |-> i,
         rawLine |-> line,
         status |-> m.status,
         dueDate |-> MetaDate(m.rawText, EMOJI.DUE),
         doneDate |-> MetaDate(m.rawText, EMOJI.DONE),
         priority |-> PriorityOf(m.rawText),
         tags |-> SelectSeq(all, isFree),
         columnTags |-> SelectSeq(colTags, onLine)]

\* the task parseTasksFromContent builds for line i (0-based) of a document
ParseLine(line, filePath, i, globalFilter, cols) ==
    LET m == TaskLineMatch(line)
        all == TagsFrom(m.rawText, 1)
        colTags == ColumnTagsOf(cols)
        isFree(t) == t # globalFilter /\ ~InSeq(t, colTags)
        isColTag(t) == t # globalFilter /\ InSeq(t, colTags)
    IN  [id |-> <<filePath, i>>,
         filePath |-> filePath,
         lineNumber |-> i,
         rawLine |-> line,
         status |-> m.status,
         dueDate |-> MetaDate(m.rawText, EMOJI.DUE),
         doneDate |-> MetaDate(m.rawText, EMOJI.DONE),
         priority |-> PriorityOf(m.rawText),
         tags |-> SelectSeq(all, isFree),
         columnTags |-> SelectSeq(all, isColTag)]

\* a parser that does not skip indented checklist lines
IsTaskLine_Indented(line, globalFilter) ==
    /\ TaskLineMatch(line).ok
    /\ Includes(line, globalFilter)

\* line i is emitted as a task
IsTaskLine(line, globalFilter) ==
    /\ TaskLineMatch(line).ok
    /\ TaskLineMatch(line).indent = 0
    /\ Includes(line, globalFilter)

\* a collection of subtasks that a blank line ends
RECURSIVE SubtasksFrom_StopAtBlank(_, _)
SubtasksFrom_StopAtBlank(content, j) ==
    IF j > Len(content) THEN <<>>
    ELSE LET subLine == content[j]
             subMatch == TaskLineMatch(subLine)
         IN  IF ~subMatch.ok
             THEN IF SkipWs(subLine, 1) <= Len(subLine) /\ IsSpace(subLine[1])
                  THEN SubtasksFrom_StopAtBlank(content, j + 1)
                  ELSE <<>>
             ELSE IF subMatch.indent = 0 THEN <<>>
             ELSE <<[rawLine |-> subLine, status |-> subMatch.status,
                     lineNumber |-> j - 1]>>
                    \o SubtasksFrom_StopAtBlank(content, j + 1)

\* the subtasks parseTasksFromContent collects from line j (1-based) on: the
\* loop skips blank lines and indented lines that are no checklist line,
\* stops at a line without indent, and takes the indented checklist lines
RECURSIVE SubtasksFrom(_, _)
SubtasksFrom(content, j) ==
    IF j > Len(content) THEN <<>>
    ELSE LET subLine == content[j]
             subMatch == TaskLineMatch(subLine)
         IN  IF ~subMatch.ok
             THEN IF SkipWs(subLine, 1) > Len(subLine) \/ IsSpace(subLine[1])
                  THEN SubtasksFrom(content, j + 1)
                  ELSE <<>>
             ELSE IF subMatch.indent = 0 THEN <<>>
             ELSE <<[rawLine |-> subLine, status |-> subMatch.status,
                     lineNumber |-> j - 1]>>
                    \o SubtasksFrom(content, j + 1)

\* tasks.push({..., subtasks})
WithSubtasks(task, subtasks) ==
    [f \in DOMAIN task \cup {"subtasks"} |->
        IF f = "subtasks" THEN subtasks ELSE task[f]]

RECURSIVE ParseFrom(_, _, _, _, _)
ParseFrom(content, i, filePath, globalFilter, cols) ==
    IF i > Len(content) THEN <<>>
    ELSE (IF IsTaskLine(content[i], globalFilter)
          THEN <<WithSubtasks(
                    ParseLine(content[i], filePath, i - 1, globalFilter, cols),
                    SubtasksFrom(content, i + 1))>>
          ELSE <<>>)
         \o ParseFrom(content, i + 1, filePath, globalFilter, cols)

parseTasksFromContent(content, filePath, globalFilter, cols) ==
    ParseFrom(content, 1, filePath, globalFilter, cols)

----------------------------------------------------------------------------
(* Column assignment *)

\* columns.find((c) => c.type === type): its index, or 0
FindType(cols, type) ==
    IF \E i \in 1..Len(cols) : cols[i].type = type
    THEN CHOOSE i \in 1..Len(cols) :
            /\ cols[i].type = type
            /\ \A j \in 1..(i - 1) : cols[j].type # type
    ELSE 0

\* columns.find((c) => c.id === id): its index, or 0
FindId(cols, id) ==
    IF \E i \in 1..Len(cols) : cols[i].id = id
    THEN CHOOSE i \in 1..Len(cols) :
            /\ cols[i].id = id
            /\ \A j \in 1..(i - 1) : cols[j].id # id
    ELSE 0

\* the tag columns whose tag the task carries, as column indexes
TagMatches(task, cols) ==
    {i \in 1..Len(cols) :
        /\ cols[i].type = "tag"
        /\ cols[i].tag # NoTag
        /\ InSeq(cols[i].tag, task.columnTags)}

\* assignColumn with the tag columns consulted before the status
assignColumn_TagFirst(task, cols) ==
    IF TagMatches(task, cols) # {}
    THEN cols[CHOOSE i \in TagMatches(task, cols) :
                \A j \in TagMatches(task, cols) : i <= j].id
    ELSE IF task.status = "x" \/ task.status = "-"
    THEN (IF FindType(cols, "done") # 0
          THEN cols[FindType(cols, "done")].id ELSE "done")
    ELSE IF task.dueDate = NULL /\ FindType(cols, "backlog") # 0
    THEN cols[FindType(cols, "backlog")].id
    ELSE IF FindType(cols, "todo") # 0
    THEN cols[FindType(cols, "todo")].id
    ELSE "todo"

\* assignColumn taking the column of the task's first column tag in the text
assignColumn_TextOrder(task, cols) ==
    IF task.status = "x" \/ task.status = "-"
    THEN (IF FindType(cols, "done") # 0
          THEN cols[FindType(cols, "done")].id ELSE "done")
    ELSE IF TagMatches(task, cols) # {}
    THEN LET first == CHOOSE k \in 1..Len(task.columnTags) :
                        /\ \E i \in TagMatches(task, cols) :
                                cols[i].tag = task.columnTags[k]
                        /\ \A m \in 1..(k - 1) :
                                \A i \in TagMatches(task, cols) :
                                    cols[i].tag # task.columnTags[m]
             hit == {i \in TagMatches(task, cols) :
                        cols[i].tag = task.columnTags[first]}
         IN cols[CHOOSE i \in hit : \A j \in hit : i <= j].id
    ELSE IF task.dueDate = NULL /\ FindType(cols, "backlog") # 0
    THEN cols[FindType(cols, "backlog")].id
    ELSE IF FindType(cols, "todo") # 0
    THEN cols[FindType(cols, "todo")].id
    ELSE "todo"

\* assignColumn sending every untagged open task to the backlog
assignColumn_BacklogDated(task, cols) ==
    IF task.status = "x" \/ task.status = "-"
    THEN (IF FindType(cols, "done") # 0
          THEN cols[FindType(cols, "done")].id ELSE "done")
    ELSE IF TagMatches(task, cols) # {}
    THEN cols[CHOOSE i \in TagMatches(task, cols) :
                \A j \in TagMatches(task, cols) : i <= j].id
    ELSE IF FindType(cols, "backlog") # 0
    THEN cols[FindType(cols, "backlog")].id
    ELSE IF FindType(cols, "todo") # 0
    THEN cols[FindType(cols, "todo")].id
    ELSE "todo"

assignColumn(task, cols) ==
    IF task.status = "x" \/ task.status = "-"
    THEN (IF FindType(cols, "done") # 0
          THEN cols[FindType(cols, "done")].id ELSE "done")
    ELSE IF TagMatches(task, cols) # {}
    THEN cols[CHOOSE i \in TagMatches(task, cols) :
                \A j \in TagMatches(task, cols) : i <= j].id
    ELSE IF task.dueDate = NULL /\ FindType(cols, "backlog") # 0
    THEN cols[FindType(cols, "backlog")].id
    ELSE IF FindType(cols, "todo") # 0
    THEN cols[FindType(cols, "todo")].id
    ELSE "todo"

----------------------------------------------------------------------------
(* Settings and the documents of the vault *)

GlobalFilter == <<"#", "t">>
TagW == <<"#", "w">>      \* the tag of the In Progress column
TagA == <<"#", "a">>      \* the tag of a custom column

NoLimit == -1          \* ColumnConfig.limit: undefined

Col(id, type, tag) ==
    [id |-> id, type |-> type, tag |-> tag, limit |-> NoLimit]

\* the done column of DEFAULT_COLUMNS, with its limit
DoneColumn == [Col("done", "done", NoTag) EXCEPT !.limit = 10]

\* types.ts DEFAULT_COLUMNS
DEFAULT_COLUMNS ==
    <<Col("backlog", "backlog", NoTag), Col("todo", "todo", NoTag),
      Col("in-progress", "tag", TagW), DoneColumn>>

\* the default board with one custom tag column added in the settings tab,
\* which puts it before the last two columns
BoardColumns ==
    <<Col("backlog", "backlog", NoTag), Col("todo", "todo", NoTag),
      Col("waiting", "tag", TagA), Col("in-progress", "tag", TagW),
      DoneColumn>>

\* a path is the sequence of its segments, the last one the file name
FileA == <<"a.md">>
Paths == {FileA}

IsPrefix(p, q) == Len(p) <= Len(q) /\ SubSeq(q, 1, Len(p)) = p

\* TaskStore.isExcluded
isExcluded(path, excludedFolders) ==
    \E folder \in excludedFolders : IsPrefix(folder, path)

\* TFile.extension === 'md'
IsMarkdown(path) == path[Len(path)] \in {"a.md", "b.md"}

BoardSettings ==
    [columns |-> BoardColumns,
     excludedFolders |-> {<<"Templates">>},
     todoFilter |-> "due-today",
     globalFilter |-> GlobalFilter,
     doneLimit |-> 10]

----------------------------------------------------------------------------
(* TaskStore *)

\* TaskStore.rebuildAssignments: the map it leaves
Assignments(ts, cols) ==
    [id \in {ts[i].id : i \in 1..Len(ts)} |->
        assignColumn(ts[CHOOSE i \in 1..Len(ts) :
                            /\ ts[i].id = id
                            /\ \A j \in (i + 1)..Len(ts) : ts[j].id # id],
                     cols)]

\* TaskStore.getTask: the index of the first task with the id, or 0
getTask(ts, id) ==
    IF \E i \in 1..Len(ts) : ts[i].id = id
    THEN CHOOSE i \in 1..Len(ts) :
            /\ ts[i].id = id
            /\ \A j \in 1..(i - 1) : ts[j].id # id
    ELSE 0

\* the tasks a scan of one document adds
ScanFile(v, path, st) ==
    IF isExcluded(path, st.excludedFolders) \/ v[path] = NoFile
       \/ ~IsMarkdown(path)
    THEN <<>>
    ELSE parseTasksFromContent(v[path], path, st.globalFilter, st.columns)

\* a reparse that keeps the tasks of the document when the read throws
reparsed_Retain(ts, filePath, readOk) ==
    LET NotOfFile(t) == t.filePath # filePath
    IN  IF readOk
        THEN SelectSeq(ts, NotOfFile) \o ScanFile(vault, filePath, settings)
        ELSE ts

\* the task list TaskStore.reparseFile leaves; readOk = FALSE is
\* cachedRead throwing
reparsed(ts, filePath, readOk) ==
    LET NotOfFile(t) == t.filePath # filePath
    IN  SelectSeq(ts, NotOfFile)
            \o (IF readOk THEN ScanFile(vault, filePath, settings) ELSE <<>>)

\* TaskStore.reparseFile, taken as one step
reparseFile(filePath) ==
    \E readOk \in BOOLEAN :
        /\ tasks' = reparsed(tasks, filePath, readOk)
        /\ columnAssignments' =
                Assignments(reparsed(tasks, filePath, readOk), settings.columns)
        /\ UNCHANGED <<vault, settings, last, ops, aux>>

----------------------------------------------------------------------------
(* TaskWriter and DragHandler: the operations *)

\* what a write to (filePath, lineNumber) reads: <<the line>>, or <<>>
\* when the file or the line is not there
LineAt(v, filePath, lineNumber) ==
    IF v[filePath] # NoFile /\ lineNumber >= 0
       /\ lineNumber < Len(v[filePath])
    THEN <<v[filePath][lineNumber + 1]>>
    ELSE <<>>

\* TaskWriter.modifyLine, with newLine the transform's result for the line
modifyLine(v, filePath, lineNumber, newLine) ==
    IF v[filePath] = NoFile THEN v
    ELSE IF lineNumber >= 0 /\ lineNumber < Len(v[filePath])
         THEN [v EXCEPT ![filePath][lineNumber + 1] = newLine]
         ELSE v

Did(op, task, tag, tags, before) ==
    [op |-> op, id |-> task.id, status |-> task.status, tag |-> tag,
     tags |-> tags, target |-> "", source |-> "", before |-> before]

InputTags == {TagW, TagA}

StoreTasks == {tasks[i] : i \in 1..Len(tasks)}

\* one writer operation on a task: read the line, transform it, write it
Write(task, newLine, did) ==
    /\ vault' = IF did.before = <<>> THEN vault
                ELSE modifyLine(vault, task.filePath, task.lineNumber, newLine)
    /\ last' = did
    /\ ops' = ops + 1
    /\ UNCHANGED <<settings, tasks, columnAssignments, aux>>

Read(task) == LineAt(vault, task.filePath, task.lineNumber)

\* TaskWriter.addTag
addTag(task, tag) ==
    Write(task,
          IF Read(task) = <<>> THEN <<>> ELSE addTagLine(Read(task)[1], tag),
          Did("addTag", task, tag, <<>>, Read(task)))

\* TaskWriter.removeTag
removeTag(task, tag) ==
    Write(task,
          IF Read(task) = <<>> THEN <<>> ELSE removeTagLine(Read(task)[1], tag),
          Did("removeTag", task, tag, <<>>, Read(task)))

\* TaskWriter.completeTask
completeTask(task, columnTags) ==
    Write(task,
          IF Read(task) = <<>> THEN <<>>
          ELSE completeLine(Read(task)[1], columnTags, todayStr),
          Did("completeTask", task, NoTag, columnTags, Read(task)))

\* TaskWriter.uncompleteTask
uncompleteTask(task) ==
    Write(task,
          IF Read(task) = <<>> THEN <<>> ELSE uncompleteLine(Read(task)[1]),
          Did("uncompleteTask", task, NoTag, <<>>, Read(task)))

\* the line TaskWriter.moveToColumn writes
moveToColumnLine(line, status, targetColumnTag, targetColumnType, allColumnTags) ==
    IF targetColumnType = "done"
    THEN completeLine(line, allColumnTags, todayStr)
    ELSE moveLine(line, status, targetColumnTag, targetColumnType,
                  allColumnTags)

ColumnIds(cols) == {cols[i].id : i \in 1..Len(cols)}

\* handleDragEnd without the return on a drop in the source column
handleDragEnd_NoSameColumn(taskId, sourceColumnId, targetColumnId) ==
    LET t == getTask(tasks, taskId)
        sourceCol == FindId(settings.columns, sourceColumnId)
        targetCol == FindId(settings.columns, targetColumnId)
        allColumnTags == ColumnTagsOf(settings.columns)
        returns == IF t = 0 THEN "noTask"
                   ELSE IF sourceCol = 0 \/ targetCol = 0 THEN "noColumn"
                   ELSE ""
        before == IF t = 0 THEN <<>> ELSE Read(tasks[t])
    IN  /\ ops' = ops + 1
        /\ last' = IF returns # ""
                   THEN [op |-> "dragIgnored", id |-> taskId, status |-> "",
                         tag |-> NoTag, tags |-> <<>>, target |-> "",
                         source |-> returns, before |-> before]
                   ELSE [op |-> "moveToColumn", id |-> taskId,
                         status |-> tasks[t].status, tag |-> NoTag,
                         tags |-> allColumnTags, target |-> targetColumnId,
                         source |-> sourceColumnId, before |-> before]
        /\ vault' = IF returns # "" \/ before = <<>> THEN vault
                    ELSE modifyLine(vault, tasks[t].filePath,
                            tasks[t].lineNumber,
                            moveToColumnLine(before[1], tasks[t].status,
                                settings.columns[targetCol].tag,
                                settings.columns[targetCol].type,
                                allColumnTags))
        /\ UNCHANGED <<settings, tasks, columnAssignments, aux>>

\* DragHandler.handleDragEnd: the early returns leave every document alone
handleDragEnd(taskId, sourceColumnId, targetColumnId) ==
    LET t == getTask(tasks, taskId)
        sourceCol == FindId(settings.columns, sourceColumnId)
        targetCol == FindId(settings.columns, targetColumnId)
        allColumnTags == ColumnTagsOf(settings.columns)
        returns == IF sourceColumnId = targetColumnId THEN "sameColumn"
                   ELSE IF t = 0 THEN "noTask"
                   ELSE IF sourceCol = 0 \/ targetCol = 0 THEN "noColumn"
                   ELSE ""
        before == IF t = 0 THEN <<>> ELSE Read(tasks[t])
    IN  /\ ops' = ops + 1
        /\ last' = IF returns # ""
                   THEN [op |-> "dragIgnored", id |-> taskId, status |-> "",
                         tag |-> NoTag, tags |-> <<>>, target |-> "",
                         source |-> returns, before |-> before]
                   ELSE [op |-> "moveToColumn", id |-> taskId,
                         status |-> tasks[t].status, tag |-> NoTag,
                         tags |-> allColumnTags, target |-> targetColumnId,
                         source |-> sourceColumnId, before |-> before]
        /\ vault' = IF returns # "" \/ before = <<>> THEN vault
                    ELSE modifyLine(vault, tasks[t].filePath,
                            tasks[t].lineNumber,
                            moveToColumnLine(before[1], tasks[t].status,
                                settings.columns[targetCol].tag,
                                settings.columns[targetCol].type,
                                allColumnTags))
        /\ UNCHANGED <<settings, tasks, columnAssignments, aux>>

----------------------------------------------------------------------------
(* Spec: a scanned board with one document of one task line; the writer's *)
(* operations, a drag, and the re-parse that follows a write              *)

Box(c) == <<"-", " ", "[", c, "]", " ">>

DoneToken == <<" ", EMOJI.DONE, " ", "D">>

\* the pieces of text an initial task line is put together from
Pieces ==
    {<<" ">>, <<" ", "a">>, <<" ">> \o TagW, <<" ">> \o TagA,
     <<" ">> \o TagW \o <<"a">>, <<" ">> \o TagW \o <<" ">> \o TagA,
     <<" ", "#">> \o TagW \o <<"w">>,
     DoneToken, <<" ", EMOJI.DONE>>, <<" ">> \o TagW \o DoneToken,
     <<" ">> \o BoxOpen}

RECURSIVE Bodies(_)
Bodies(n) ==
    IF n = 0 THEN {<<>>}
    ELSE Bodies(n - 1) \cup {b \o p : b \in Bodies(n - 1), p \in Pieces}

\* top-level checklist lines that carry the global filter tag
TaskLines ==
    {Box(c) \o GlobalFilter \o b : c \in StatusChars, b \in Bodies(MaxPieces)}

NoOp == [op |-> "none", id |-> <<>>, status |-> "", tag |-> NoTag,
         tags |-> <<>>, target |-> "", source |-> "", before |-> <<>>]

\* the state TaskStore.fullScan leaves for a vault and settings
Scanned(v, st) ==
    /\ vault = v
    /\ settings = st
    /\ tasks = ScanFile(v, FileA, st)
    /\ columnAssignments = Assignments(ScanFile(v, FileA, st), st.columns)
    /\ last = NoOp
    /\ ops = 0
    /\ inflight = {}
    /\ debounceTimer = NoTimer
    /\ listening = TRUE
    /\ log = <<>>
    /\ board = <<>>

Init ==
    \E line \in TaskLines : Scanned([p \in Paths |-> <<line>>], BoardSettings)

\* a task id the board still shows after its task has gone from the store
GoneId == <<FileA, 7>>

AddTag ==
    /\ ops < MaxOps
    /\ \E t \in StoreTasks, tag \in InputTags : addTag(t, tag)
RemoveTag ==
    /\ ops < MaxOps
    /\ \E t \in StoreTasks, tag \in InputTags : removeTag(t, tag)
CompleteTask ==
    /\ ops < MaxOps
    /\ \E t \in StoreTasks,
          tags \in {<<>>, ColumnTagsOf(settings.columns)} :
            completeTask(t, tags)
UncompleteTask ==
    /\ ops < MaxOps
    /\ \E t \in StoreTasks : uncompleteTask(t)
HandleDragEnd ==
    /\ ops < MaxOps
    /\ \/ \E t \in StoreTasks :
            \E src \in {columnAssignments[t.id], "gone"},
               tgt \in ColumnIds(settings.columns) \cup {"gone"} :
                handleDragEnd(t.id, src, tgt)
       \/ \E src, tgt \in ColumnIds(settings.columns) :
                handleDragEnd(GoneId, src, tgt)
ReparseFile == \E p \in Paths : reparseFile(p)

Next ==
    \/ AddTag
    \/ RemoveTag
    \/ CompleteTask
    \/ UncompleteTask
    \/ HandleDragEnd
    \/ ReparseFile

Spec == Init /\ [][Next]_vars

----------------------------------------------------------------------------
(* SpecDrag: the same board, with nothing but drops of cards and the      *)
(* re-parse                                                               *)

NextDrag == HandleDragEnd \/ ReparseFile

SpecDrag == Init /\ [][NextDrag]_vars

----------------------------------------------------------------------------
(* SpecRedrag: the same board; a card is dropped, and dropped again from  *)
(* the column it was left in, before or after the re-parse                *)

\* the column whose container holds the card of a task: the one the last
\* render put it in, or the one the last drop left it in
CardColumns(task) ==
    {columnAssignments[task.id]}
        \cup (IF last.op = "moveToColumn" /\ last.id = task.id
              THEN {last.target} ELSE {})

\* onEnd of a column's Sortable: from and to are card containers
DropCard ==
    /\ ops < MaxDrags
    /\ \E t \in StoreTasks :
        \E src \in CardColumns(t), tgt \in ColumnIds(settings.columns) :
            handleDragEnd(t.id, src, tgt)

NextRedrag == DropCard \/ ReparseFile

SpecRedrag == Init /\ [][NextRedrag]_vars

----------------------------------------------------------------------------
(* SpecTrip: the same board, with Complete and Uncomplete in sequence *)

TripComplete ==
    /\ ops < MaxTrip
    /\ \E t \in StoreTasks,
          tags \in {<<>>, ColumnTagsOf(settings.columns)} :
            completeTask(t, tags)

TripUncomplete ==
    /\ ops < MaxTrip
    /\ \E t \in StoreTasks : uncompleteTask(t)

NextTrip == TripComplete \/ TripUncomplete \/ ReparseFile

SpecTrip == Init /\ [][NextTrip]_vars

----------------------------------------------------------------------------
(* SpecDoc: two documents, the first of several lines.  A writer          *)
(* transition is issued (modifyLine looks the file up and hands its       *)
(* callback to vault.process) and applied later in one atomic step; the   *)
(* document is edited from outside while the store still holds the        *)
(* earlier parse.                                                         *)

FileB == <<"b.md">>
DocPaths == {FileA, FileB}

OpenLine == Box(" ") \o GlobalFilter
TaggedLine == Box("/") \o GlobalFilter \o <<" ">> \o TagW

DocLines == {OpenLine, TaggedLine}

RECURSIVE DocsOf(_)
DocsOf(n) ==
    IF n = 1 THEN {<<l>> : l \in DocLines}
    ELSE DocsOf(n - 1) \cup {Append(d, l) : d \in DocsOf(n - 1), l \in DocLines}

\* TaskStore.fullScan over getMarkdownFiles()
ScanAll(v, st) == ScanFile(v, FileA, st) \o ScanFile(v, FileB, st)

InitDoc ==
    \E d \in DocsOf(MaxLines) :
        /\ vault = [p \in DocPaths |-> IF p = FileA THEN d ELSE <<OpenLine>>]
        /\ settings = BoardSettings
        /\ tasks = ScanAll(vault, BoardSettings)
        /\ columnAssignments =
                Assignments(ScanAll(vault, BoardSettings), BoardColumns)
        /\ last = NoOp
        /\ ops = 0
        /\ inflight = {}
        /\ debounceTimer = NoTimer
        /\ listening = TRUE
        /\ log = <<>>
        /\ board = <<>>

\* the transform a writer operation passes to modifyLine
Transform(r, line) ==
    CASE r.op = "addTag" -> addTagLine(line, r.tag)
      [] r.op = "removeTag" -> removeTagLine(line, r.tag)
      [] r.op = "completeTask" -> completeLine(line, r.tags, todayStr)
      [] r.op = "uncompleteTask" -> uncompleteLine(line)
      [] r.op = "moveToColumn" ->
            moveToColumnLine(line, r.status, r.tag, r.targetType, r.tags)

\* the writer calls the board can make for a task of the store
Calls(task) ==
    LET call(op, tag, tags, targetType) ==
            [op |-> op, filePath |-> task.filePath,
             lineNumber |-> task.lineNumber, status |-> task.status,
             tag |-> tag, tags |-> tags, targetType |-> targetType]
        colTags == ColumnTagsOf(settings.columns)
    IN  {call("addTag", TagW, <<>>, ""), call("removeTag", TagW, <<>>, ""),
         call("completeTask", NoTag, colTags, ""),
         call("uncompleteTask", NoTag, <<>>, ""),
         call("moveToColumn", TagW, colTags, "tag")}

\* the content a callback of vault.process stale by one issue would see
processContent_Stale(current, seen) == seen

\* the content vault.process passes to its callback: the current one
processContent(current, seen) == current

\* a callback that puts the rewritten line above the line it read
processLines_Insert(content, r) ==
    IF r.lineNumber >= 0 /\ r.lineNumber < Len(content)
    THEN SubSeq(content, 1, r.lineNumber)
            \o <<Transform(r, content[r.lineNumber + 1])>>
            \o SubSeq(content, r.lineNumber + 1, Len(content))
    ELSE content

\* a callback that rewrites the last line when the index is past the end
processLines_Clamp(content, r) ==
    IF r.lineNumber >= 0 /\ r.lineNumber < Len(content)
    THEN [content EXCEPT ![r.lineNumber + 1] =
                Transform(r, content[r.lineNumber + 1])]
    ELSE [content EXCEPT ![Len(content)] = Transform(r, content[Len(content)])]

\* the callback of modifyLine: split, rewrite line lineNumber, join
processLines(content, r) ==
    IF r.lineNumber >= 0 /\ r.lineNumber < Len(content)
    THEN [content EXCEPT ![r.lineNumber + 1] =
                Transform(r, content[r.lineNumber + 1])]
    ELSE content

Entry(kind, r, line) ==
    [kind |-> kind, at |-> r.at, op |-> r.op,
     filePath |-> r.filePath, lineNumber |-> r.lineNumber, line |-> line]

\* TaskWriter.modifyLine up to the call of vault.process: without a file
\* at the path it returns at once
IssueOp(c) ==
    LET r == [at |-> ops, seen |-> vault[c.filePath]] @@ c
    IN  /\ IF vault[c.filePath] = NoFile
           THEN /\ ops' = ops + 1
                /\ log' = Append(log, Entry("returned", r, <<>>))
                /\ UNCHANGED inflight
           ELSE /\ inflight' = inflight \cup {r}
                /\ UNCHANGED <<ops, log>>
        /\ UNCHANGED <<vault, settings, tasks, columnAssignments, last,
                       debounceTimer, listening, board>>

\* vault.process runs the callback of one transition in flight
ProcessOp(r) ==
    LET content == processContent(vault[r.filePath], r.seen)
        written == IF vault[r.filePath] = NoFile THEN NoFile
                   ELSE processLines(content, r)
    IN  /\ vault' = [vault EXCEPT ![r.filePath] = written]
        /\ inflight' = inflight \ {r}
        /\ ops' = ops + 1
        /\ log' = Append(log, Entry("applied", r,
                    IF r.lineNumber >= 0 /\ r.lineNumber < Len(r.seen)
                    THEN <<Transform(r, r.seen[r.lineNumber + 1])>>
                    ELSE <<>>))
        /\ UNCHANGED <<settings, tasks, columnAssignments, last,
                       debounceTimer, listening, board>>


EditEntry(path) ==
    [kind |-> "edit", at |-> ops, op |-> "", filePath |-> path,
     lineNumber |-> 0, line |-> <<>>]

\* the document is deleted outside the board
DeleteFile ==
    /\ log = <<>>
    /\ vault[FileA] # NoFile
    /\ vault' = [vault EXCEPT ![FileA] = NoFile]
    /\ log' = Append(log, EditEntry(FileA))
    /\ UNCHANGED <<settings, tasks, columnAssignments, last, ops, inflight,
                   debounceTimer, listening, board>>

\* the last line of the document is deleted outside the board
TruncateFile ==
    /\ log = <<>>
    /\ vault[FileA] # NoFile
    /\ Len(vault[FileA]) > 1
    /\ vault' = [vault EXCEPT ![FileA] = SubSeq(@, 1, Len(@) - 1)]
    /\ log' = Append(log, EditEntry(FileA))
    /\ UNCHANGED <<settings, tasks, columnAssignments, last, ops, inflight,
                   debounceTimer, listening, board>>

\* the tasks of the first document
DocTasks == {t \in StoreTasks : t.filePath = FileA}

Issue ==
    /\ inflight = {}
    /\ ops < MaxDocOps
    /\ \E t \in DocTasks : \E c \in Calls(t) : IssueOp(c)

Process == \E r \in inflight : ProcessOp(r)

NextDoc == Issue \/ Process \/ DeleteFile \/ TruncateFile

SpecDoc == InitDoc /\ [][NextDoc]_vars

----------------------------------------------------------------------------
(* SpecRace: the same documents, left alone from outside; transitions are *)
(* issued together, before vault.process has run any of them, and then    *)
(* applied in any order                                                   *)

IssueRace ==
    /\ log = <<>>
    /\ Cardinality(inflight) < MaxRace
    /\ \E t \in DocTasks : \E c \in Calls(t) : IssueOp(c)

NextRace == IssueRace \/ Process

SpecRace == InitDoc /\ [][NextRace]_vars

----------------------------------------------------------------------------
(* SpecStale: the same documents; the first one is edited from outside    *)
(* above its tasks, and a transition is issued from the store's earlier   *)
(* parse before the debounced re-parse has run                            *)

NoteLine == <<"a">>

\* a line is inserted at the top of the document outside the board
InsertLineAbove ==
    /\ log = <<>>
    /\ vault' = [vault EXCEPT ![FileA] = <<NoteLine>> \o @]
    /\ log' = Append(log, EditEntry(FileA))
    /\ UNCHANGED <<settings, tasks, columnAssignments, last, ops, inflight,
                   debounceTimer, listening, board>>

\* the first line of the document is deleted outside the board
DeleteFirstLine ==
    /\ log = <<>>
    /\ Len(vault[FileA]) > 1
    /\ vault' = [vault EXCEPT ![FileA] = Tail(@)]
    /\ log' = Append(log, EditEntry(FileA))
    /\ UNCHANGED <<settings, tasks, columnAssignments, last, ops, inflight,
                   debounceTimer, listening, board>>

NextStale == InsertLineAbove \/ DeleteFirstLine \/ Issue \/ Process

SpecStale == InitDoc /\ [][NextStale]_vars

----------------------------------------------------------------------------
(* SpecTimer: the event path.  The documents are modified from outside;   *)
(* the 'modify' handler arms the one debounce timer of the store, whose   *)
(* expiry reparses the path it was armed with.  The timer expires only    *)
(* after its 300 ms have passed without another call of debouncedReparse, *)
(* so two events with no expiry between them are less than 300 ms apart.  *)
(* debounceTimer = NoTimer stands for null and for a handle that has      *)
(* expired or was cleared: the code treats the three alike.               *)

InitTimer ==
    /\ vault = [p \in DocPaths |-> <<OpenLine>>]
    /\ settings = BoardSettings
    /\ tasks = ScanAll(vault, BoardSettings)
    /\ columnAssignments =
            Assignments(ScanAll(vault, BoardSettings), BoardColumns)
    /\ last = NoOp
    /\ ops = 0
    /\ inflight = {}
    /\ debounceTimer = NoTimer
    /\ listening = TRUE
    /\ log = <<>>
    /\ board = <<>>

Event(kind, path, ok, failed) ==
    [kind |-> kind, filePath |-> path, ok |-> ok, failed |-> failed]

\* TaskStore.debouncedReparse: the timer it leaves armed
debouncedReparse(filePath) == filePath

\* the document at path is modified; with the listeners registered the
\* 'modify' handler runs
Modify(path) ==
    /\ Len(log) < MaxEvents
    /\ vault' = [vault EXCEPT ![path] =
                    IF @ = <<OpenLine>> THEN <<TaggedLine>> ELSE <<OpenLine>>]
    /\ debounceTimer' = IF listening /\ IsMarkdown(path)
                        THEN debouncedReparse(path)
                        ELSE debounceTimer
    /\ log' = Append(log, Event("modify", path, TRUE, {}))
    /\ UNCHANGED <<settings, tasks, columnAssignments, last, ops, inflight,
                   listening, board>>

ModifyFile == \E p \in DocPaths : Modify(p)

\* the debounce timer expires: reparseFile(filePath)
TimerFire ==
    /\ debounceTimer # NoTimer
    /\ \E readOk \in BOOLEAN :
        /\ tasks' = reparsed(tasks, debounceTimer, readOk)
        /\ columnAssignments' =
                Assignments(reparsed(tasks, debounceTimer, readOk),
                            settings.columns)
        /\ log' = Append(log, Event("reparse", debounceTimer, readOk, {}))
    /\ debounceTimer' = NoTimer
    /\ UNCHANGED <<vault, settings, last, ops, inflight, listening, board>>

\* the task list TaskStore.fullScan leaves when the reads of the
\* documents in failed throw
scanned(failed) ==
    (IF FileA \in failed THEN <<>> ELSE ScanFile(vault, FileA, settings))
    \o (IF FileB \in failed THEN <<>> ELSE ScanFile(vault, FileB, settings))

\* TaskStore.fullScan
FullScan ==
    /\ Len(log) < MaxEvents
    /\ \E failed \in {{}, {FileA}, {FileB}} :
        /\ tasks' = scanned(failed)
        /\ columnAssignments' = Assignments(scanned(failed), settings.columns)
        /\ log' = Append(log, Event("scan", NoTimer, failed = {}, failed))
    /\ UNCHANGED <<vault, settings, last, ops, inflight, debounceTimer,
                   listening, board>>

\* TaskStore.stopListening
StopListening ==
    /\ listening
    /\ listening' = FALSE
    /\ debounceTimer' = NoTimer
    /\ log' = Append(log, Event("stop", NoTimer, TRUE, {}))
    /\ UNCHANGED <<vault, settings, tasks, columnAssignments, last, ops,
                   inflight, board>>

NextTimer == ModifyFile \/ TimerFire \/ FullScan \/ StopListening

SpecTimer == InitTimer /\ [][NextTimer]_vars

\* the host runs an armed timer once its delay has passed
SpecTimerLive == SpecTimer /\ WF_vars(TimerFire)

----------------------------------------------------------------------------
(* TaskStore.getTasksByColumn *)

\* isDueOrOverdue(dateStr)
isDueOrOverdue(dateStr) == DateRank(dateStr) <= DateRank(todayStr)

\* a due-today filter that lets tasks without a due date through
todoVisible_Undated(task, todoFilter) ==
    ~(todoFilter = "due-today"
      /\ task.dueDate # NULL /\ ~isDueOrOverdue(task.dueDate))

\* the "To Do" filter of getTasksByColumn for a task of the todo column
todoVisible(task, todoFilter) ==
    ~(todoFilter = "due-today"
      /\ (task.dueDate = NULL \/ ~isDueOrOverdue(task.dueDate)))

\* TaskStore.prioritySort: the rank of the priority
PriorityRank(task) ==
    CASE task.priority = "highest" -> 0 [] task.priority = "high" -> 1
      [] task.priority = "medium" -> 2 [] task.priority = "low" -> 3
      [] OTHER -> 4

\* TaskStore.todoGroup
todoGroup(task) ==
    IF task.dueDate = NULL THEN 2
    ELSE IF DateRank(task.dueDate) < DateRank(todayStr) THEN 0
    ELSE IF task.dueDate = todayStr THEN 1
    ELSE 2

\* the comparators of getTasksByColumn as a key: a sorts before b iff its
\* key is smaller (done: later done dates first, no done date last)
SortKey(type, task) ==
    CASE type = "todo" -> todoGroup(task) * 5 + PriorityRank(task)
      [] type = "done" -> IF task.doneDate = NULL THEN 4
                          ELSE 3 - DateRank(task.doneDate)
      [] OTHER -> PriorityRank(task)

\* Array.prototype.sort with the comparator of the column type: stable
RECURSIVE SortTasks(_, _)
SortTasks(type, seq) ==
    IF seq = <<>> THEN <<>>
    ELSE LET t == seq[Len(seq)]
             rest == SortTasks(type, SubSeq(seq, 1, Len(seq) - 1))
             after == {i \in 1..Len(rest) :
                        SortKey(type, rest[i]) > SortKey(type, t)}
             pos == IF after = {} THEN Len(rest) + 1
                    ELSE CHOOSE i \in after : \A j \in after : i <= j
         IN  SubSeq(rest, 1, pos - 1) \o <<t>> \o SubSeq(rest, pos, Len(rest))

\* col.limit ?? this.settings.doneLimit
DoneLimitOf(col, st) == IF col.limit # NoLimit THEN col.limit ELSE st.doneLimit

\* the list of one column
ColumnList(ts, assignments, st, col) ==
    LET Listed(t) ==
            /\ t.id \in DOMAIN assignments
            /\ assignments[t.id] = col.id
            /\ (col.type = "todo" => todoVisible(t, st.todoFilter))
        sorted == SortTasks(col.type, SelectSeq(ts, Listed))
    IN  IF col.type = "done" /\ Len(sorted) > DoneLimitOf(col, st)
        THEN SubSeq(sorted, 1, DoneLimitOf(col, st))
        ELSE sorted

\* TaskStore.getTasksByColumn: column id -> list
getTasksByColumn(ts, assignments, st) ==
    [id \in ColumnIds(st.columns) |->
        ColumnList(ts, assignments, st, st.columns[FindId(st.columns, id)])]

----------------------------------------------------------------------------
(* SpecView: one document of open and completed tasks; the settings are   *)
(* saved and the document is re-parsed, and each time the store notifies  *)
(* the view, which renders getTasksByColumn()                             *)

DueTokenOf(d) == <<" ", EMOJI.DUE, " ", d>>

\* open tasks: no due date, due later, due today, overdue
OpenLines ==
    <<OpenLine, OpenLine \o DueTokenOf("F"), OpenLine \o DueTokenOf("N"),
      OpenLine \o DueTokenOf("D")>>

DoneLine == Box("x") \o GlobalFilter

\* the i-th completed task of a document: done today, done earlier, or
\* without a done date
DoneLineOf(i) ==
    CASE i % 3 = 0 -> DoneLine \o <<" ", EMOJI.DONE, " ", "N">>
      [] i % 3 = 1 -> DoneLine \o DoneToken
      [] OTHER -> DoneLine

ViewDocs ==
    {[i \in 1..n |-> DoneLineOf(i + o)] \o SubSeq(OpenLines, 1, k) :
        n \in 0..MaxDone, o \in 0..2, k \in 0..Len(OpenLines)}

\* the column lists of SpecView: the board, the board without its backlog
\* column, the board with a done column that has no limit of its own
ViewColumns ==
    {BoardColumns, Tail(BoardColumns),
     [BoardColumns EXCEPT ![Len(BoardColumns)] = Col("done", "done", NoTag)]}

\* the settings tab: the filter dropdown and the first values of the
\* "Done column limit" slider
ViewSettings ==
    {[BoardSettings EXCEPT !.columns = cols, !.todoFilter = f, !.doneLimit = n] :
        cols \in ViewColumns, f \in {"due-today", "all-undone"}, n \in {5, 10}}

InitView ==
    \E doc \in ViewDocs :
        /\ vault = [p \in Paths |-> doc]
        /\ settings = BoardSettings
        /\ tasks = ScanFile(vault, FileA, BoardSettings)
        /\ columnAssignments =
                Assignments(ScanFile(vault, FileA, BoardSettings), BoardColumns)
        /\ last = NoOp
        /\ ops = 0
        /\ inflight = {}
        /\ debounceTimer = NoTimer
        /\ listening = TRUE
        /\ log = <<>>
        /\ board = getTasksByColumn(tasks, columnAssignments, BoardSettings)

\* the settings are saved: TaskStore.updateSettings, then the render
SaveSettings ==
    \E st \in ViewSettings :
        /\ settings' = st
        /\ columnAssignments' = Assignments(tasks, st.columns)
        /\ board' = getTasksByColumn(tasks, columnAssignments', st)
        /\ UNCHANGED <<vault, tasks, last, ops, inflight, debounceTimer,
                       listening, log>>

\* TaskStore.reparseFile, then the render
ReparseView ==
    \E readOk \in BOOLEAN :
        /\ tasks' = reparsed(tasks, FileA, readOk)
        /\ columnAssignments' = Assignments(tasks', settings.columns)
        /\ board' = getTasksByColumn(tasks', columnAssignments', settings)
        /\ UNCHANGED <<vault, settings, last, ops, inflight, debounceTimer,
                       listening, log>>

NextView == SaveSettings \/ ReparseView

SpecView == InitView /\ [][NextView]_vars

----------------------------------------------------------------------------
(* SpecParse: one document put together from lines of every kind the      *)
(* parser tells apart; the store scans it and re-parses it                *)

ParseLines ==
    {Box(" ") \o GlobalFilter \o <<" ">> \o TagW,   \* a task
     Box(" ") \o GlobalFilter \o <<"a">>,           \* the filter inside a tag
     Box("x") \o <<"a">>,                           \* no global filter
     <<" ">> \o Box("/") \o GlobalFilter,           \* indented checklist line
     <<" ">> \o Box(" ") \o <<"a">>,
     <<>>,                                          \* blank
     <<" ", "a">>,                                  \* indented note
     GlobalFilter}                                  \* text without indent

RECURSIVE ParseDocsOf(_)
ParseDocsOf(n) ==
    IF n = 0 THEN {<<>>}
    ELSE {Append(d, l) : d \in ParseDocsOf(n - 1), l \in ParseLines}

ParseDocs == UNION {ParseDocsOf(n) : n \in 1..MaxParse}

\* the store before its first scan
InitParse ==
    \E content \in ParseDocs :
        /\ vault = [p \in Paths |-> content]
        /\ settings = BoardSettings
        /\ tasks = <<>>
        /\ columnAssignments = <<>>
        /\ last = NoOp
        /\ ops = 0
        /\ inflight = {}
        /\ debounceTimer = NoTimer
        /\ listening = TRUE
        /\ log = <<>>
        /\ board = <<>>

\* TaskStore.fullScan
ScanDocument ==
    /\ log = <<>>
    /\ tasks' = ScanFile(vault, FileA, settings)
    /\ columnAssignments' = Assignments(tasks', settings.columns)
    /\ log' = <<Event("scan", FileA, TRUE, {})>>
    /\ UNCHANGED <<vault, settings, last, ops, inflight, debounceTimer,
                   listening, board>>

\* TaskStore.reparseFile of the scanned document
ReparseDocument ==
    /\ Len(log) = 1
    /\ tasks' = reparsed(tasks, FileA, TRUE)
    /\ columnAssignments' = Assignments(tasks', settings.columns)
    /\ log' = Append(log, Event("reparse", FileA, TRUE, {}))
    /\ UNCHANGED <<vault, settings, last, ops, inflight, debounceTimer,
                   listening, board>>

NextParse == ScanDocument \/ ReparseDocument

SpecParse == InitParse /\ [][NextParse]_vars

----------------------------------------------------------------------------
(* SpecStore: one document that is modified, renamed into and out of the  *)
(* Templates folder and deleted, while the list of excluded folders is    *)
(* edited.  reparseFile is taken in its two steps: the part up to the     *)
(* await of cachedRead, and the part after it.                            *)

FileT == <<"Templates", "a.md">>
StorePaths == {FileA, FileT}

\* the only file of the vault, wherever it is now; NoFile once deleted
TheFile == IF vault[FileA] # NoFile THEN vault[FileA] ELSE vault[FileT]

\* TaskStore.fullScan over both paths
ScanStore(v, st) == ScanFile(v, FileA, st) \o ScanFile(v, FileT, st)

InitStore ==
    \E p \in StorePaths, line \in DocLines,
       folders \in {{}, {<<"Templates">>}} :
        /\ vault = [q \in StorePaths |-> IF q = p THEN <<line>> ELSE NoFile]
        /\ settings = [BoardSettings EXCEPT !.excludedFolders = folders]
        /\ tasks = ScanStore(vault, settings)
        /\ columnAssignments = Assignments(tasks, settings.columns)
        /\ last = NoOp
        /\ ops = 0
        /\ inflight = {}
        /\ debounceTimer = NoTimer
        /\ listening = TRUE
        /\ log = <<>>
        /\ board = <<>>

\* the document is modified: the 'modify' handler arms the timer
StoreModify ==
    \E p \in StorePaths :
        /\ ops < MaxStore
        /\ vault[p] # NoFile
        /\ vault' = [vault EXCEPT ![p] =
                        IF @ = <<OpenLine>> THEN <<TaggedLine>> ELSE <<OpenLine>>]
        /\ debounceTimer' = debouncedReparse(p)
        /\ ops' = ops + 1
        /\ UNCHANGED <<settings, tasks, columnAssignments, last, inflight,
                       listening, log, board>>

\* the timer expires: reparseFile up to the await.  The tasks of the path
\* are dropped; the read is started unless the path is excluded or no
\* markdown file is there, in which case reparseFile runs to its end
ReparseStart ==
    /\ debounceTimer # NoTimer
    /\ LET filePath == debounceTimer
           NotOfFile(t) == t.filePath # filePath
           reads == /\ ~isExcluded(filePath, settings.excludedFolders)
                    /\ vault[filePath] # NoFile
                    /\ IsMarkdown(filePath)
       IN  /\ tasks' = SelectSeq(tasks, NotOfFile)
           /\ IF reads
              THEN /\ inflight' = inflight \cup {[filePath |-> filePath, at |-> ops]}
                   /\ UNCHANGED columnAssignments
              ELSE /\ columnAssignments' = Assignments(tasks', settings.columns)
                   /\ UNCHANGED inflight
    /\ debounceTimer' = NoTimer
    /\ UNCHANGED <<vault, settings, last, ops, listening, log, board>>

\* cachedRead settles: reparseFile from the await on.  The file object is
\* the one looked up at the start, so a renamed file is read at its new
\* path and parsed under the old one; the read of a deleted file throws
ReparseEnd ==
    \E r \in inflight :
        /\ tasks' = tasks \o
                (IF TheFile = NoFile THEN <<>>
                 ELSE parseTasksFromContent(TheFile, r.filePath,
                            settings.globalFilter, settings.columns))
        /\ columnAssignments' = Assignments(tasks', settings.columns)
        /\ inflight' = inflight \ {r}
        /\ UNCHANGED <<vault, settings, last, ops, debounceTimer, listening,
                       log, board>>

\* the 'rename' handler: path and id of the tasks of the old path are
\* rewritten
StoreRename ==
    \E old, new \in StorePaths :
        /\ ops < MaxStore
        /\ vault[old] # NoFile
        /\ vault[new] = NoFile
        /\ vault' = [vault EXCEPT ![new] = vault[old], ![old] = NoFile]
        /\ tasks' = [k \in 1..Len(tasks) |->
                        IF tasks[k].filePath = old
                        THEN [tasks[k] EXCEPT !.filePath = new,
                                              !.id = <<new, tasks[k].lineNumber>>]
                        ELSE tasks[k]]
        /\ columnAssignments' = Assignments(tasks', settings.columns)
        /\ ops' = ops + 1
        /\ UNCHANGED <<settings, last, inflight, debounceTimer, listening,
                       log, board>>

\* the 'delete' handler
StoreDelete ==
    \E p \in StorePaths :
        /\ ops < MaxStore
        /\ vault[p] # NoFile
        /\ vault' = [vault EXCEPT ![p] = NoFile]
        /\ tasks' = LET NotOfFile(t) == t.filePath # p
                    IN  SelectSeq(tasks, NotOfFile)
        /\ columnAssignments' = Assignments(tasks', settings.columns)
        /\ ops' = ops + 1
        /\ UNCHANGED <<settings, last, inflight, debounceTimer, listening,
                       log, board>>

\* the excluded folders are edited in the settings tab: updateSettings
EditExcluded ==
    \E folders \in {{}, {<<"Templates">>}} :
        /\ ops < MaxStore
        /\ folders # settings.excludedFolders
        /\ settings' = [settings EXCEPT !.excludedFolders = folders]
        /\ columnAssignments' = Assignments(tasks, settings.columns)
        /\ ops' = ops + 1
        /\ UNCHANGED <<vault, tasks, last, inflight, debounceTimer, listening,
                       log, board>>

NextStore ==
    \/ StoreModify
    \/ ReparseStart
    \/ ReparseEnd
    \/ StoreRename
    \/ StoreDelete
    \/ EditExcluded

SpecStore == InitStore /\ [][NextStore]_vars

----------------------------------------------------------------------------
(* SpecAssign: boards with any column list; the column list is edited at  *)
(* run time, which rebuilds the assignments without a re-parse            *)

\* the column configurations a list is drawn from
ColumnPool ==
    {Col("backlog", "backlog", NoTag), Col("todo", "todo", NoTag),
     Col("in-progress", "tag", TagW), Col("waiting", "tag", TagA),
     Col("review", "tag", TagW), Col("done", "done", NoTag)}

RECURSIVE ColumnListsOf(_)
ColumnListsOf(n) ==
    IF n = 0 THEN {<<>>}
    ELSE ColumnListsOf(n - 1) \cup
         {Append(l, c) : l \in {x \in ColumnListsOf(n - 1) : Len(x) = n - 1},
                          c \in ColumnPool}

\* the lists without a repeated column id
ColumnLists ==
    {l \in ColumnListsOf(MaxCols) :
        \A i, j \in 1..Len(l) : l[i].id = l[j].id => i = j}

DueToken == <<" ", EMOJI.DUE, " ", "D">>

AssignBodies ==
    {t \o d : t \in {<<>>, <<" ">> \o TagW, <<" ">> \o TagA,
                     <<" ">> \o TagW \o <<" ">> \o TagA,
                     <<" ">> \o TagA \o <<" ">> \o TagW},
              d \in {<<>>, DueToken}}

AssignLines ==
    {Box(c) \o GlobalFilter \o b : c \in StatusChars, b \in AssignBodies}

InitAssign ==
    \E line \in AssignLines, cols \in ColumnLists :
        Scanned([p \in Paths |-> <<line>>],
                [BoardSettings EXCEPT !.columns = cols])

\* TaskStore.updateSettings (and DragHandler.updateColumns)
updateSettings(newSettings) ==
    /\ settings' = newSettings
    /\ columnAssignments' = Assignments(tasks, newSettings.columns)
    /\ UNCHANGED <<vault, tasks, last, ops, aux>>

UpdateSettings ==
    \E cols \in ColumnLists :
        updateSettings([settings EXCEPT !.columns = cols])

NextAssign ==
    \/ UpdateSettings
    \/ ReparseFile

SpecAssign == InitAssign /\ [][NextAssign]_vars

----------------------------------------------------------------------------
(* Column assignment: C1, C2, C3 (checked under SpecAssign) *)

Min(S) == CHOOSE i \in S : \A j \in S : i <= j

TypeIdx(type) == {k \in 1..Len(settings.columns) :
                    settings.columns[k].type = type}

\* the tag columns, by index, whose tag is among the task's columnTags
CarriedIdx(t) ==
    {k \in TypeIdx("tag") :
        /\ settings.columns[k].tag # NoTag
        /\ \E m \in 1..Len(t.columnTags) :
                t.columnTags[m] = settings.columns[k].tag}

Closed(t) == t.status \in {"x", "-"}

\* C1: every done ('x') or cancelled ('-') task is assigned the id of the
\* done-type column, or the literal "done" when there is none, whatever its
\* columnTags and due date are.
C1_DoneWins ==
    \A i \in 1..Len(tasks) :
        Closed(tasks[i]) =>
            columnAssignments[tasks[i].id] =
                IF TypeIdx("done") = {} THEN "done"
                ELSE settings.columns[Min(TypeIdx("done"))].id

\* a cancelled task with a due date that carries the tag of a configured tag
\* column sits in the done column
C1_Witness ==
    \E i \in 1..Len(tasks) :
        /\ tasks[i].status = "-"
        /\ tasks[i].dueDate # NULL
        /\ CarriedIdx(tasks[i]) # {}
        /\ TypeIdx("done") # {}
        /\ columnAssignments[tasks[i].id] = "done"

\* C2: a task that is neither done nor cancelled and carries the tag of at
\* least one tag column is assigned the first such column in configuration
\* order, whatever the order of its tags in the text and its due date.
C2_FirstTagColumn ==
    \A i \in 1..Len(tasks) :
        (~Closed(tasks[i]) /\ CarriedIdx(tasks[i]) # {}) =>
            columnAssignments[tasks[i].id] =
                settings.columns[Min(CarriedIdx(tasks[i]))].id

\* a dated task whose text has #a before #w, on a board that lists the #w
\* column before the #a column, sits in the #w column
C2_Witness ==
    \E i \in 1..Len(tasks) :
        /\ tasks[i].status = " "
        /\ tasks[i].columnTags = <<TagA, TagW>>
        /\ tasks[i].dueDate # NULL
        /\ Len(settings.columns) = 2
        /\ settings.columns[1].tag = TagW
        /\ settings.columns[2].tag = TagA
        /\ columnAssignments[tasks[i].id] = settings.columns[1].id

\* C3: every task of the store has one assigned column id; a task that is
\* not done or cancelled and matches no tag column gets the backlog column
\* when it has no due date and a backlog column exists, and otherwise the
\* todo column, or the literal "todo" when there is none.
C3_BacklogElseTodo ==
    /\ DOMAIN columnAssignments = {tasks[i].id : i \in 1..Len(tasks)}
    /\ \A i \in 1..Len(tasks) :
        (~Closed(tasks[i]) /\ CarriedIdx(tasks[i]) = {}) =>
            columnAssignments[tasks[i].id] =
                IF tasks[i].dueDate = NULL /\ TypeIdx("backlog") # {}
                THEN settings.columns[Min(TypeIdx("backlog"))].id
                ELSE IF TypeIdx("todo") # {}
                THEN settings.columns[Min(TypeIdx("todo"))].id
                ELSE "todo"

\* a dated task on a board with a backlog column and no todo column gets the
\* literal "todo"
C3_Witness ==
    \E i \in 1..Len(tasks) :
        /\ tasks[i].status = "/"
        /\ tasks[i].dueDate # NULL
        /\ CarriedIdx(tasks[i]) = {}
        /\ TypeIdx("backlog") # {}
        /\ TypeIdx("todo") = {}
        /\ columnAssignments[tasks[i].id] = "todo"

----------------------------------------------------------------------------
(* The line mutation engine: C4 .. C10 (checked under Spec) *)

\* the task line of the document, and the line the last operation read
Cur == vault[FileA][1]
Before == last.before[1]

HasBox(s, c) == MatchAt(s, 1, <<"-", " ", "[", c, "]">>)

\* the done-date tokens of a line: the marker, whitespace, a date
DoneDates(s) ==
    {i \in 1..Len(s) :
        /\ s[i] = EMOJI.DONE
        /\ SkipWs(s, i + 1) > i + 1
        /\ SkipWs(s, i + 1) <= Len(s)
        /\ IsDate(s[SkipWs(s, i + 1)])}

Occurrences(s, pat) == Cardinality({i \in 1..Len(s) : MatchAt(s, i, pat)})

\* the tag tokens of a line, as the parser reads them
TagTokens(s) == TagsFrom(s, 1)

\* the words of a line: its maximal runs of non-whitespace
RECURSIVE WordEnd(_, _)
WordEnd(s, i) ==
    IF i <= Len(s) /\ ~IsSpace(s[i]) THEN WordEnd(s, i + 1) ELSE i

RECURSIVE WordsFrom(_, _)
WordsFrom(s, i) ==
    IF i > Len(s) THEN <<>>
    ELSE IF IsSpace(s[i]) THEN WordsFrom(s, i + 1)
    ELSE <<SubSeq(s, i, WordEnd(s, i) - 1)>> \o WordsFrom(s, WordEnd(s, i))

Words(s) == WordsFrom(s, 1)

TargetCol == settings.columns[Min({k \in 1..Len(settings.columns) :
                                    settings.columns[k].id = last.target})]
SourceCol == settings.columns[Min({k \in 1..Len(settings.columns) :
                                    settings.columns[k].id = last.source})]

\* the last operation was Complete: completeTask, or a move to a done column
Completed ==
    \/ last.op = "completeTask"
    \/ last.op = "moveToColumn" /\ TargetCol.type = "done"

\* C4: Complete leaves the line with the done checkbox marker [x], for
\* every starting status character (space, '/', '!', '-' and 'x').
C4_CompleteMarksDone == Completed => HasBox(Cur, "x")

\* C5: Complete appends today's done-date token only if the line has no
\* done-date marker; a line that held at most one done-date token holds
\* exactly one after Complete; a second Complete changes nothing.
C5_OneDoneDate ==
    last.op = "completeTask" =>
        /\ Includes(Before, <<EMOJI.DONE>>) => ~Includes(Cur, <<todayStr>>)
        /\ Cardinality(DoneDates(Before)) <= 1
                => Cardinality(DoneDates(Cur)) = 1
        /\ completeLine(Cur, last.tags, todayStr) = Cur

\* C6: moving a task out of the Done column, where assignColumn put it, to
\* a column of another type leaves the checkbox [ ] and no done-date token.
C6_DoneToOpen ==
    (/\ last.op = "moveToColumn"
     /\ SourceCol.type = "done"
     /\ columnAssignments[last.id] = last.source
     /\ TargetCol.type # "done")
        => HasBox(Cur, " ") /\ DoneDates(Cur) = {}

\* C7: after moveToColumn the line holds no configured column tag other
\* than the target's; the tag of a tag-type target occurs exactly once.
C7_OnlyTargetTag ==
    last.op = "moveToColumn" =>
        \A k \in 1..Len(settings.columns) :
            settings.columns[k].tag # NoTag =>
                Occurrences(Cur, settings.columns[k].tag) =
                    IF TargetCol.type = "tag"
                       /\ TargetCol.tag = settings.columns[k].tag
                    THEN 1 ELSE 0

\* the text after the leading checkbox holds no further '['
NoInnerBox(s) == \A i \in 6..Len(s) : s[i] # "["

\* the checkbox rewritten to [ ], unless the line is cancelled
Reopened(s) == IF s[4] = "-" THEN s ELSE [s EXCEPT ![4] = " "]

\* Uncomplete runs on the line the last operation, a Complete, left
RoundTrip == last.op = "completeTask" /\ last'.op = "uncompleteTask"

C9_AddTagIdempotent ==
    last.op = "addTag" =>
        /\ InSeq(last.tag, TagTokens(Before)) => Cur = Before
        /\ ~InSeq(last.tag, TagTokens(Before))
                => InSeq(last.tag, TagTokens(Cur))
        /\ addTagLine(Cur, last.tag) = Cur

SkipWord(ws, w) ==
    LET Other(x) == x # w IN SelectSeq(ws, Other)

SkipTags(ts, drop) ==
    LET Other(x) == ~InSeq(x, drop) IN SelectSeq(ts, Other)

\* C10: removeTag deletes the occurrences of the tag token and leaves every
\* other token as it was, a tag that starts with the removed tag included;
\* so does the column-tag stripping of Complete and moveToColumn.
C10_RemoveOnlyTag ==
    /\ last.op = "removeTag" =>
            Words(Cur) = SkipWord(Words(Before), last.tag)
    /\ last.op \in {"completeTask", "moveToColumn"} =>
            SkipTags(TagTokens(Cur), last.tags) =
                SkipTags(TagTokens(Before), last.tags)

----------------------------------------------------------------------------
(* The write path: C11 .. C14 *)

\* the documents differ at most in line lineNumber of the document at f
Confined(f, lineNumber) ==
    \A p \in DOMAIN vault :
        IF vault[p] = NoFile THEN vault'[p] = NoFile
        ELSE /\ vault'[p] # NoFile
             /\ Len(vault'[p]) = Len(vault[p])
             /\ \A i \in 1..Len(vault[p]) :
                    (p # f \/ i # lineNumber + 1) => vault'[p][i] = vault[p][i]

\* a step of the writer: a transition is issued, or vault.process runs one
WriterStep == inflight' # inflight \/ ops' # ops

\* the transition vault.process ran in this step
Ran == CHOOSE r \in inflight : r \notin inflight'

\* C11: a writer operation changes at most the line at the task's line
\* index of the task's document: the line count and every other line of
\* that document, and every other document, are as before.
C11_LineLocal ==
    [][WriterStep =>
        IF inflight' = inflight \/ inflight \subseteq inflight'
        THEN vault' = vault
        ELSE Confined(Ran.filePath, Ran.lineNumber)]_vars

\* a transition on the second line of a two-line document rewrote that line
C11_Witness ==
    /\ Len(log) = 1
    /\ log[1].kind = "applied"
    /\ log[1].lineNumber = 1
    /\ Len(vault[FileA]) = 2
    /\ vault[FileA][2] \notin DocLines
    /\ vault[FileA][2] = log[1].line[1]

\* C12: of transitions issued together on different lines of a document,
\* every one takes effect: its line holds its rewrite once all have run.
C12_BothTakeEffect ==
    \A i \in 1..Len(log) :
        (/\ log[i].kind = "applied"
         /\ log[i].line # <<>>
         /\ \A j \in 1..Len(log) :
                j # i => \/ log[j].filePath # log[i].filePath
                         \/ log[j].lineNumber # log[i].lineNumber)
            => vault[log[i].filePath][log[i].lineNumber + 1] = log[i].line[1]

\* two transitions issued together have rewritten the two lines
C12_Witness ==
    /\ inflight = {}
    /\ Len(log) = 2
    /\ log[1].at = 0 /\ log[2].at = 0
    /\ log[1].lineNumber # log[2].lineNumber
    /\ \A i \in 1..2 : vault[FileA][i] \notin DocLines

\* C13: handleDragEnd writes nothing when the source and target column are
\* the same, when the task is not in the store, or when one of the column
\* ids is not configured: a drop that writes a document or goes on to
\* moveToColumn is none of these.
C13_DragIgnored ==
    [][(ops' # ops /\ (vault' # vault \/ last'.op # "dragIgnored")) =>
       \A id \in {tasks[i].id : i \in 1..Len(tasks)} \cup {GoneId} :
       \A src, tgt \in ColumnIds(settings.columns) \cup {"gone"} :
            handleDragEnd(id, src, tgt) =>
                /\ src # tgt
                /\ getTask(tasks, id) # 0
                /\ FindId(settings.columns, src) # 0
                /\ FindId(settings.columns, tgt) # 0]_vars

\* a card was dropped for a task that is no longer in the store
C13_Witness ==
    /\ last.op = "dragIgnored"
    /\ last.source = "noTask"
    /\ last.id = GoneId

\* the document of a transition is gone, or is too short for its line index
NoLine(r) ==
    IF vault[r.filePath] = NoFile THEN TRUE
    ELSE r.lineNumber >= Len(vault[r.filePath])

\* C14: a transition whose document is gone at write time, or whose line
\* index is outside the document, changes and creates no document and is
\* not kept for another attempt.
C14_DroppedNoOp ==
    [][WriterStep =>
        IF inflight \subseteq inflight' /\ inflight' # inflight
        THEN vault' = vault
        ELSE IF inflight' = inflight
        THEN vault' = vault /\ log'[Len(log')].kind = "returned"
        ELSE NoLine(Ran) => vault' = vault /\ inflight' = inflight \ {Ran}]_vars

\* a transition ran on a document that had lost the line it was for
C14_Witness ==
    /\ Len(log) = 2
    /\ log[1].kind = "edit"
    /\ log[2].kind = "applied"
    /\ inflight = {}
    /\ vault[FileA] # NoFile
    /\ log[2].lineNumber >= Len(vault[FileA])

----------------------------------------------------------------------------
(* The event path: C15 .. C17 *)

IsModify(i, p) == log[i].kind = "modify" /\ log[i].filePath = p
IsReparse(i, p) == log[i].kind = "reparse" /\ log[i].filePath = p
IsScan(i) == log[i].kind = "scan"

\* the document at p was modified and has not been read again since
Pending(p) ==
    \E i \in 1..Len(log) :
        /\ IsModify(i, p)
        /\ \A j \in (i + 1)..Len(log) : ~IsReparse(j, p) /\ ~IsScan(j)

\* C15: when two documents are modified within one debounce window, each
\* of them is eventually reparsed.
C15_BothReparsed ==
    \A p \in DocPaths :
        (Pending(p) /\ listening) ~> (~Pending(p) \/ ~listening)

\* C16: the modify events of a document that come less than the quiet
\* window apart cause exactly one reparse of it, after the last of them;
\* after stopListening no reparse starts.
C16_OneReparse ==
    /\ \A p \in DocPaths :
        /\ (debounceTimer = NoTimer /\ listening) =>
                \A i \in 1..Len(log) :
                    IsModify(i, p) =>
                        \E j \in (i + 1)..Len(log) : IsReparse(j, p)
        /\ \A j \in 1..Len(log) :
                IsReparse(j, p) =>
                    /\ \E i \in 1..(j - 1) : IsModify(i, p)
                    /\ \A k \in (j + 1)..Len(log) :
                            IsReparse(k, p) =>
                                \E i \in (j + 1)..(k - 1) : IsModify(i, p)
    /\ \A i \in 1..Len(log) :
            log[i].kind = "stop" =>
                \A j \in (i + 1)..Len(log) : log[j].kind # "reparse"

\* the tasks of the document at p among ts
TasksOf(ts, p) ==
    LET OfFile(t) == t.filePath = p IN SelectSeq(ts, OfFile)

----------------------------------------------------------------------------
(* The visible lists (SpecView) *)

\* the tasks of the store that are assigned to column id, in store order
AssignedTo(id) ==
    LET Here(t) == t.id \in DOMAIN columnAssignments
                   /\ columnAssignments[t.id] = id
    IN  SelectSeq(tasks, Here)

TodoColumns == {k \in 1..Len(settings.columns) : settings.columns[k].type = "todo"}

DoneColumns == {k \in 1..Len(settings.columns) : settings.columns[k].type = "done"}

\* the due date is today or earlier
DueByToday(t) == t.dueDate \in {"D", "N"}

\* C18: in due-today mode the visible list of the todo column holds exactly
\* the tasks assigned to the column whose due date is today or earlier (a
\* task without a due date or due later is left out); in all-undone mode it
\* holds every task assigned to the column.
C18_TodoFilter ==
    \A k \in TodoColumns :
        LET shown == board[settings.columns[k].id]
            assigned == AssignedTo(settings.columns[k].id)
        IN  /\ \A i \in 1..Len(shown) : InSeq(shown[i], assigned)
            /\ settings.todoFilter = "due-today" =>
                    \A i \in 1..Len(assigned) :
                        InSeq(assigned[i], shown) <=> DueByToday(assigned[i])
            /\ settings.todoFilter = "all-undone" =>
                    /\ Len(shown) = Len(assigned)
                    /\ \A i \in 1..Len(assigned) : InSeq(assigned[i], shown)

\* due-today mode on a board without a backlog column: a task without a due
\* date and a task due later are assigned to the todo column and hidden,
\* while a task of the column is shown
C18_Witness ==
    /\ settings.todoFilter = "due-today"
    /\ \E k \in TodoColumns :
        LET shown == board[settings.columns[k].id]
            assigned == AssignedTo(settings.columns[k].id)
        IN  /\ shown # <<>>
            /\ \E i \in 1..Len(assigned) :
                    assigned[i].dueDate = NULL /\ ~InSeq(assigned[i], shown)
            /\ \E i \in 1..Len(assigned) :
                    assigned[i].dueDate = "F" /\ ~InSeq(assigned[i], shown)

\* C19: the visible list of the done column never holds more tasks than
\* settings.doneLimit; when more done tasks exist it is the first
\* settings.doneLimit tasks of the list sorted by done date, latest first.
C19_DoneLimit ==
    \A k \in DoneColumns :
        LET shown == board[settings.columns[k].id]
            assigned == AssignedTo(settings.columns[k].id)
        IN  /\ Len(shown) <= settings.doneLimit
            /\ Len(assigned) > settings.doneLimit =>
                    shown = SubSeq(SortTasks("done", assigned), 1,
                                   settings.doneLimit)

----------------------------------------------------------------------------
(* The column tags of a parsed task (SpecAssign) *)

\* the index of the first column with the tag, or 0
FirstColumnWith(cols, tag) ==
    LET hits == {k \in 1..Len(cols) : cols[k].tag = tag}
    IN  IF hits = {} THEN 0 ELSE CHOOSE k \in hits : \A j \in hits : k <= j

\* the tags of a line that are a tag of one of the columns, in text order
ColumnTagsInText(line, globalFilter, cols) ==
    LET isColTag(t) == t # globalFilter /\ FirstColumnWith(cols, t) # 0
    IN  SelectSeq(TagTokens(line), isColTag)

\* C20 as stated: whenever the document is parsed, the columnTags of each
\* task follow the order of the configured columns.
C20_ColumnOrder ==
    [][tasks' # tasks =>
        \A k \in 1..Len(tasks') :
            \A i, j \in 1..Len(tasks'[k].columnTags) :
                i < j => FirstColumnWith(settings.columns, tasks'[k].columnTags[i])
                            <= FirstColumnWith(settings.columns, tasks'[k].columnTags[j])]_vars

\* C20 amended: whenever the document is parsed, the columnTags of each task
\* are the tags of its line that are a tag of a configured column, in the
\* order in which they appear in the text.
C20_TextOrder ==
    [][tasks' # tasks =>
        \A k \in 1..Len(tasks') :
            tasks'[k].columnTags =
                ColumnTagsInText(tasks'[k].rawLine, settings.globalFilter,
                                 settings.columns)]_vars

\* a task whose line carries the tag of a later column before the tag of an
\* earlier column, parsed under these columns
C20_Witness ==
    \E k \in 1..Len(tasks) :
        /\ Len(tasks[k].columnTags) = 2
        /\ tasks[k].columnTags =
                ColumnTagsInText(tasks[k].rawLine, settings.globalFilter,
                                 settings.columns)
        /\ FirstColumnWith(settings.columns, tasks[k].columnTags[1])
                > FirstColumnWith(settings.columns, tasks[k].columnTags[2])
        /\ FirstColumnWith(settings.columns, tasks[k].columnTags[2]) > 0

----------------------------------------------------------------------------
(* The parser (SpecParse) *)

\* the document the store has parsed
Parsed == vault[FileA]

\* a checklist line without indent: "- [c] " and at least one more character
TopChecklist(line) ==
    /\ Len(line) >= 7
    /\ SubSeq(line, 1, 3) = <<"-", " ", "[">>
    /\ line[4] \in StatusChars
    /\ line[5] = "]"
    /\ line[6] = " "

\* a checklist line after one or more spaces
IndentedChecklist(line) ==
    \E n \in 1..Len(line) :
        /\ \A i \in 1..n : line[i] = " "
        /\ TopChecklist(SubSeq(line, n + 1, Len(line)))

\* the store's tasks of line index i (0-based)
TasksAt(i) == {k \in 1..Len(tasks) : tasks[k].lineNumber = i}

\* C21: after a parse the store holds a task for line i iff line i is a
\* checklist line without indent that contains the global filter tag; the
\* tasks are in strictly increasing line order (so at most one per line),
\* and the global filter tag is in no task's tags or columnTags.
C21_TaskLines ==
    log # <<>> =>
        /\ \A i \in 1..Len(Parsed) :
                TasksAt(i - 1) # {} <=>
                    /\ TopChecklist(Parsed[i])
                    /\ Includes(Parsed[i], settings.globalFilter)
        /\ \A k \in 1..Len(tasks) :
                /\ tasks[k].lineNumber \in 0..(Len(Parsed) - 1)
                /\ tasks[k].rawLine = Parsed[tasks[k].lineNumber + 1]
                /\ ~InSeq(settings.globalFilter, tasks[k].tags)
                /\ ~InSeq(settings.globalFilter, tasks[k].columnTags)
        /\ \A k, l \in 1..Len(tasks) :
                k < l => tasks[k].lineNumber < tasks[l].lineNumber

\* a parsed document with two tasks, an indented checklist line that carries
\* the global filter tag and a checklist line without it
C21_Witness ==
    /\ log # <<>>
    /\ Len(tasks) = 2
    /\ \E i \in 1..Len(Parsed) :
            IndentedChecklist(Parsed[i])
            /\ Includes(Parsed[i], settings.globalFilter)
    /\ \E i \in 1..Len(Parsed) :
            TopChecklist(Parsed[i])
            /\ ~Includes(Parsed[i], settings.globalFilter)

\* the line ends a collection of subtasks: it is not blank and not indented
EndsSubtasks(line) == line # <<>> /\ line[1] # " "

\* the first line after line i (1-based) that ends the collection, or the
\* line after the last
SubtaskStop(i) ==
    LET stops == {j \in (i + 1)..Len(Parsed) : EndsSubtasks(Parsed[j])}
    IN  IF stops = {} THEN Len(Parsed) + 1
        ELSE CHOOSE j \in stops : \A h \in stops : j <= h

\* C22: the subtasks of a task are the indented checklist lines, in line
\* order, between its line and the first following line that is not blank
\* and not indented; no line is a subtask of two tasks.
C22_Subtasks ==
    log # <<>> =>
        /\ \A k \in 1..Len(tasks) :
            LET subs == tasks[k].subtasks
                i == tasks[k].lineNumber + 1
            IN  /\ \A j \in 1..Len(Parsed) :
                        (\E n \in 1..Len(subs) : subs[n].lineNumber = j - 1) <=>
                            /\ i < j
                            /\ j < SubtaskStop(i)
                            /\ IndentedChecklist(Parsed[j])
                /\ \A n \in 1..Len(subs) :
                        /\ subs[n].lineNumber \in 0..(Len(Parsed) - 1)
                        /\ subs[n].rawLine = Parsed[subs[n].lineNumber + 1]
                /\ \A n, m \in 1..Len(subs) :
                        n < m => subs[n].lineNumber < subs[m].lineNumber
        /\ \A k, l \in 1..Len(tasks) :
                k # l =>
                    \A n \in 1..Len(tasks[k].subtasks) :
                        \A m \in 1..Len(tasks[l].subtasks) :
                            tasks[k].subtasks[n].lineNumber
                                # tasks[l].subtasks[m].lineNumber

\* a task whose subtask follows a blank line, followed by a checklist line
\* without the global filter tag that ends the collection
C22_Witness ==
    /\ log # <<>>
    /\ \E k \in 1..Len(tasks) :
        LET i == tasks[k].lineNumber + 1 IN
        /\ Len(tasks[k].subtasks) = 1
        /\ i + 3 <= Len(Parsed)
        /\ Parsed[i + 1] = <<>>
        /\ tasks[k].subtasks[1].lineNumber = i + 1
        /\ TopChecklist(Parsed[i + 3])
        /\ ~Includes(Parsed[i + 3], settings.globalFilter)

----------------------------------------------------------------------------
(* The store after an edit of the column list (SpecAssign) *)

\* C25: in every state of the store, each task's columnTags are the tags of
\* its line that are the tag of a column of the current settings, its tags
\* hold no tag of a current column, and its column is the one a parse of its
\* line under the current settings is assigned.
C25_TagsFollowColumns ==
    /\ \A k \in 1..Len(tasks) :
        /\ tasks[k].columnTags =
                ColumnTagsInText(tasks[k].rawLine, settings.globalFilter,
                                 settings.columns)
        /\ \A n \in 1..Len(tasks[k].tags) :
                FirstColumnWith(settings.columns, tasks[k].tags[n]) = 0
        /\ columnAssignments[tasks[k].id] =
                assignColumn(ParseLine(tasks[k].rawLine, tasks[k].filePath,
                                       tasks[k].lineNumber,
                                       settings.globalFilter, settings.columns),
                             settings.columns)

----------------------------------------------------------------------------
(* The loop of parse, classify, mutate and re-parse (SpecDrag) *)

\* the task a parse of the document's line gives
Reparsed == ParseLine(Cur, FileA, 0, settings.globalFilter, settings.columns)

\* C27: after a card is dropped from its column on another column of type
\* tag or done and the write is applied, the line is still a task and a
\* parse of it is assigned to the target column.
C27_DragLands ==
    (/\ last.op = "moveToColumn"
     /\ last.before # <<>>
     /\ TargetCol.type \in {"tag", "done"})
        => /\ IsTaskLine(Cur, settings.globalFilter)
           /\ assignColumn(Reparsed, settings.columns) = last.target

----------------------------------------------------------------------------
(* A write after an edit from outside (SpecStale) *)

\* C28: the line a transition rewrites is the line its task was parsed
\* from.
C28_SameLine ==
    [][\A r \in inflight :
        (inflight' = inflight \ {r} /\ vault'[r.filePath] # vault[r.filePath])
            => /\ getTask(tasks, <<r.filePath, r.lineNumber>>) # 0
               /\ vault[r.filePath][r.lineNumber + 1] =
                    tasks[getTask(tasks, <<r.filePath, r.lineNumber>>)].rawLine]_vars

----------------------------------------------------------------------------
(* A second drop before the re-parse (SpecRedrag) *)

\* the last drop moved an open task to the done column, and the store still
\* holds the task as it was parsed before that drop
DroppedOnDone ==
    /\ last.op = "moveToColumn"
    /\ last.before # <<>>
    /\ TargetCol.type = "done"
    /\ last.status \in {" ", "/", "!"}
    /\ getTask(tasks, last.id) # 0
    /\ tasks[getTask(tasks, last.id)].rawLine = Before
    /\ tasks[getTask(tasks, last.id)].status = last.status

\* C29: when an open task was dropped on the done column and, before the
\* re-parse, is dropped on a column that is not a done column, the line is
\* left open: its checkbox is "[ ]" and it has no done date.
C29_RedragOpens ==
    [][(/\ DroppedOnDone
        /\ ops' = ops + 1
        /\ last'.op = "moveToColumn"
        /\ last'.id = last.id
        /\ last'.source = last.target
        /\ settings.columns[FindId(settings.columns, last'.target)].type # "done")
            => /\ HasBox(vault'[FileA][1], " ")
               /\ DoneDates(vault'[FileA][1]) = {}]_vars

----------------------------------------------------------------------------
(* The store under vault events (SpecStore) *)

\* C23: no task of the store has a path under an excluded folder.
C23_NoneExcluded ==
    \A k \in 1..Len(tasks) :
        ~isExcluded(tasks[k].filePath, settings.excludedFolders)

\* C24: every task of the store has the id of its path and line number, and
\* no two tasks of the store have the same id.
C24_UniqueIds ==
    /\ \A k \in 1..Len(tasks) :
            tasks[k].id = <<tasks[k].filePath, tasks[k].lineNumber>>
    /\ \A k, l \in 1..Len(tasks) : tasks[k].id = tasks[l].id => k = l

\* C26: a task of the store is in no list of getTasksByColumn but the one
\* of the column assignColumn gives for it, and in no list at all when that
\* column id is not the id of a configured column.
C26_OneList ==
    \A k \in 1..Len(tasks) :
        \A id \in ColumnIds(settings.columns) :
            InSeq(tasks[k],
                  getTasksByColumn(tasks, columnAssignments, settings)[id])
                => id = assignColumn(tasks[k], settings.columns)

====
